---------------------------- MODULE Spec2Model ----------------------------
(***************************************************************************)
(* Model of the text-extractor React application: the App component        *)
(* (src/App.tsx) and the extraction service (src/services/geminiService.ts)*)
(*                                                                         *)
(* React state (useState) and refs (useRef) are the variables.  A handler  *)
(* runs to completion and React commits the batched state updates before   *)
(* the next event; an `await` or a callback splits a handler into steps    *)
(* that later run with the values captured by the closure of the render    *)
(* they were created in.  A value that may be null is a sequence of length *)
(* <= 1 (files) or the id 0 (streams, object URLs).                        *)
(***************************************************************************)
EXTENDS Integers, Sequences, FiniteSets, Bags, TLC

VARIABLES
    status,         \* useState<AppStatus>                     App.tsx:11
    imageFile,      \* useState<File | null>: <<>> or <<file>>  App.tsx:12
    imageUrl,       \* useState<string | null>: 0 or a URL id   App.tsx:13
    extractedText,  \* useState<string>                         App.tsx:14
    error,          \* useState<string | null>                  App.tsx:15
    streamRef,      \* useRef<MediaStream | null>: 0 or an id   App.tsx:19
    srcObject,      \* videoRef.current.srcObject: 0 or an id   App.tsx:18
    liveStreams,    \* platform: streams acquired whose tracks are not stopped
    liveUrls,       \* platform: object URLs created and not revoked
    pendingCam,     \* startCamera calls awaiting getUserMedia: a bag, of the
                    \* image each call found where that history is kept
    inflight,       \* extractTextFromImage calls awaiting their result: a bag
                    \* of the files they were issued for
    blobs,          \* canvas.toBlob callbacks not yet run (each a closure)
    lastOp          \* the handler branch that ran last (history)

vars == <<status, imageFile, imageUrl, extractedText, error, streamRef,
          srcObject, liveStreams, liveUrls, pendingCam, inflight, blobs, lastOp>>

progVars == <<status, imageFile, imageUrl, extractedText, error, streamRef,
              srcObject, liveStreams, liveUrls, pendingCam, inflight, blobs>>

---------------------------------------------------------------------------
(* Bounds of the model *)

\* asynchronous operations (getUserMedia, extraction request, toBlob)
\* outstanding at once
MaxPending == 2
\* camera streams requested or open at once
MaxStreams == 2
\* object URLs unreleased at once
MaxUrls == 2

---------------------------------------------------------------------------
(* Constants of the program *)

MAX_FILE_SIZE == 10 * 1024 * 1024

SUPPORTED_FORMATS == {"image/jpeg", "image/png", "image/bmp", "image/webp"}

IDLE == "IDLE"
CAMERA_ACTIVE == "CAMERA_ACTIVE"
LOADING == "LOADING"
SUCCESS == "SUCCESS"
ERROR == "ERROR"

AppStatus == {IDLE, CAMERA_ACTIVE, LOADING, SUCCESS, ERROR}

\* the messages the handlers set (the program's are Japanese sentences)
NoError == "null"
ErrFormat == "unsupported file format"
ErrSize == "file too large"
ErrNoImage == "no image selected"
ErrCamera == "cannot access camera"
ErrUnknown == "unknown error"

---------------------------------------------------------------------------
(* Inputs *)

\* media types a candidate file may declare: the supported ones and others
FileTypes == SUPPORTED_FORMATS \cup {"image/gif"}

\* byte lengths of candidate files, on both sides of the limit
FileSizes == {MAX_FILE_SIZE, MAX_FILE_SIZE + 1}

Files == [type : FileTypes, size : FileSizes]

\* byte lengths of the PNG a captured frame encodes to
BlobSizes == {MAX_FILE_SIZE, MAX_FILE_SIZE + 1}

\* texts the user may type into the text area
Texts == {"", "Hello World"}


\* how an extraction request may end: the service answers with a text field
\* (possibly empty) or with none, the request fails (an Error is thrown),
\* something that is no Error is thrown, or the FileReader fails before
\* any request is made
Responses == { [kind |-> "text", text |-> "Hello World"],
               [kind |-> "text", text |-> ""],
               [kind |-> "absent", text |-> ""],
               [kind |-> "fail", text |-> ""],
               [kind |-> "failOther", text |-> ""],
               [kind |-> "readFail", text |-> ""] }

---------------------------------------------------------------------------
(* The component's state as one value, so that a handler's statements      *)
(* compose in order.                                                       *)

St == [ status |-> status, imageFile |-> imageFile, imageUrl |-> imageUrl,
        extractedText |-> extractedText, error |-> error,
        streamRef |-> streamRef, srcObject |-> srcObject,
        liveStreams |-> liveStreams, liveUrls |-> liveUrls,
        pendingCam |-> pendingCam, inflight |-> inflight, blobs |-> blobs ]

\* the asynchronous operations outstanding
Pending(s) == BagCardinality(s.pendingCam) + BagCardinality(s.inflight) + Len(s.blobs)

\* the <video> element exists (videoRef.current is set) exactly in the
\* render of CAMERA_ACTIVE
VideoMounted(s) == s.status = CAMERA_ACTIVE

\* React commits the handler's updates and renders: leaving CAMERA_ACTIVE
\* unmounts the <video> element together with its srcObject
Commit(s, op) ==
    /\ lastOp' = op
    /\ imageFile' = s.imageFile
    /\ status' = s.status
    /\ imageUrl' = s.imageUrl
    /\ extractedText' = s.extractedText
    /\ error' = s.error
    /\ streamRef' = s.streamRef
    /\ srcObject' = IF s.status = CAMERA_ACTIVE THEN s.srcObject ELSE 0
    /\ liveStreams' = s.liveStreams
    /\ liveUrls' = s.liveUrls
    /\ pendingCam' = s.pendingCam
    /\ inflight' = s.inflight
    /\ blobs' = s.blobs

\* ids of the platform's objects: a new object takes the least id that
\* nothing refers to any more
UrlIds == 1 .. (2 * MaxUrls + 1)
StreamIds == 1 .. (MaxStreams + 2)

UrlsInUse(s) ==
    s.liveUrls \cup {s.imageUrl} \cup {s.blobs[i].imageUrl : i \in DOMAIN s.blobs}

FreshUrl(s) ==
    CHOOSE u \in UrlIds : u \notin UrlsInUse(s)
                          /\ \A v \in UrlIds : v < u => v \in UrlsInUse(s)

StreamsInUse(s) == s.liveStreams \cup {s.streamRef, s.srcObject}

FreshStream(s) ==
    CHOOSE n \in StreamIds : n \notin StreamsInUse(s)
                             /\ \A m \in StreamIds : m < n => m \in StreamsInUse(s)

\* s without the k-th element
RemoveAt(q, k) == [j \in 1 .. (Len(q) - 1) |-> IF j < k THEN q[j] ELSE q[j + 1]]

---------------------------------------------------------------------------
(* Helpers of the component *)

\* cleanupImage, with the imageUrl its closure captured
cleanupImage(s, cUrl) ==
    [s EXCEPT !.liveUrls = IF cUrl # 0 THEN @ \ {cUrl} ELSE @,
              !.imageFile = <<>>,
              !.imageUrl = 0]

\* (mutant) stopCamera that stops the tracks and keeps the reference
stopCameraKeepsRef(s) ==
    LET s1 == IF s.streamRef # 0
              THEN [s EXCEPT !.liveStreams = @ \ {s.streamRef}]
              ELSE s
        s2 == IF VideoMounted(s) THEN [s1 EXCEPT !.srcObject = 0] ELSE s1
    IN  [s2 EXCEPT !.status = IDLE]

stopCamera(s) ==
    LET s1 == IF s.streamRef # 0
              THEN [s EXCEPT !.liveStreams = @ \ {s.streamRef}, !.streamRef = 0]
              ELSE s
        s2 == IF VideoMounted(s) THEN [s1 EXCEPT !.srcObject = 0] ELSE s1
    IN  [s2 EXCEPT !.status = IDLE]

\* (mutant) the size test with >= for >
SizeOkExclusive(file) == ~(file.size >= MAX_FILE_SIZE)

\* (mutant) the size test left out
SizeOkAlways(file) == TRUE

\* the two validations of handleFile
FormatOk(file) == file.type \in SUPPORTED_FORMATS
SizeOk(file) == ~(file.size > MAX_FILE_SIZE)

Valid(file) == FormatOk(file) /\ SizeOk(file)

\* (mutant) handleFile releasing the current image before it validates
handleFileCleanupFirst(s, file, cStatus, cUrl) ==
    LET s1 == IF cStatus = CAMERA_ACTIVE THEN stopCamera(s) ELSE s
        s2 == cleanupImage([s1 EXCEPT !.error = NoError], cUrl)
    IN  IF ~FormatOk(file) THEN [s2 EXCEPT !.error = ErrFormat]
        ELSE IF ~SizeOk(file) THEN [s2 EXCEPT !.error = ErrSize]
        ELSE LET u == FreshUrl(s2)
             IN  [s2 EXCEPT !.imageFile = <<file>>,
                            !.imageUrl = u,
                            !.liveUrls = @ \cup {u},
                            !.status = IDLE]

\* handleFile, with the status and imageUrl its closure captured
handleFile(s, file, cStatus, cUrl) ==
    LET s1 == IF cStatus = CAMERA_ACTIVE THEN stopCamera(s) ELSE s
        s2 == [s1 EXCEPT !.error = NoError]
    IN  IF ~FormatOk(file) THEN [s2 EXCEPT !.error = ErrFormat]
        ELSE IF ~SizeOk(file) THEN [s2 EXCEPT !.error = ErrSize]
        ELSE LET s3 == cleanupImage(s2, cUrl)
                 u == FreshUrl(s3)
             IN  [s3 EXCEPT !.imageFile = <<file>>,
                            !.imageUrl = u,
                            !.liveUrls = @ \cup {u},
                            !.status = IDLE]

\* the branch handleFile takes
IngestOp(file) ==
    IF ~FormatOk(file) THEN "ingest:format"
    ELSE IF ~SizeOk(file) THEN "ingest:size" ELSE "ingest:ok"

\* room for the object URL a valid file gets, every pending toBlob callback
\* keeping room for its own
UrlRoom(s, file) ==
    Valid(file) =>
        Cardinality(cleanupImage(s, s.imageUrl).liveUrls) + Len(s.blobs) < MaxUrls

---------------------------------------------------------------------------
(* File select and drop *)

\* handleFile(file) as both handlers call it, from the current render
ingest(file) ==
    /\ UrlRoom(St, file)
    /\ Commit(handleFile(St, file, status, imageUrl), IngestOp(file))

\* the file buttons are rendered outside CAMERA_ACTIVE only
handleFileSelect(file) ==
    /\ status # CAMERA_ACTIVE
    /\ ingest(file)

\* the drop zone is rendered in every state
handleDrop(file) == ingest(file)

---------------------------------------------------------------------------
(* Camera *)

\* the image handle and preview of a render; none
Held(s) == [imageFile |-> s.imageFile, imageUrl |-> s.imageUrl]
NoImage == [imageFile |-> <<>>, imageUrl |-> 0]

\* the camera buttons are rendered outside CAMERA_ACTIVE only; the handler
\* runs up to its await of getUserMedia; found: what the pending call is
\* remembered by
startCameraFrom(found) ==
    /\ status # CAMERA_ACTIVE
    /\ Pending(St) < MaxPending
    /\ BagCardinality(pendingCam) + Cardinality(liveStreams) < MaxStreams
    /\ Commit([cleanupImage(St, imageUrl) EXCEPT !.error = NoError,
                                                 !.status = CAMERA_ACTIVE,
                                                 !.pendingCam =
                                                     @ (+) SetToBag({found})],
              "camera:start")

startCamera == startCameraFrom(NoImage)

\* the same call, remembered by the image handle and preview it found
startCameraTraced == startCameraFrom(Held(St))

\* startCamera after its await, the platform having granted a stream
getUserMediaGranted(req) ==
    /\ BagIn(req, pendingCam)
    /\ LET n == FreshStream(St)
       IN  Commit([St EXCEPT !.liveStreams = @ \cup {n},
                             !.srcObject = IF VideoMounted(St) THEN n ELSE @,
                             !.streamRef = n,
                             !.pendingCam = @ (-) SetToBag({req})],
                  "camera:granted")

\* (mutant) the catch block without its setError
getUserMediaDeniedNoMessage(req) ==
    /\ BagIn(req, pendingCam)
    /\ Commit([St EXCEPT !.status = ERROR,
                         !.pendingCam = @ (-) SetToBag({req})],
              "camera:denied")

\* startCamera after its await, the platform having refused: the catch block
getUserMediaDenied(req) ==
    /\ BagIn(req, pendingCam)
    /\ Commit([St EXCEPT !.error = ErrCamera,
                         !.status = ERROR,
                         !.pendingCam = @ (-) SetToBag({req})],
              "camera:denied")

\* (mutant) capturePhoto without its closing stopCamera()
capturePhotoNoStop(ctx) ==
    /\ status = CAMERA_ACTIVE
    /\ IF ~VideoMounted(St) \/ streamRef = 0
       THEN Commit(St, "capture:nostream")
       ELSE IF ctx
       THEN /\ Pending(St) < MaxPending
            /\ Cardinality(liveUrls) + Len(blobs) < MaxUrls
            /\ Commit([St EXCEPT !.blobs =
                          Append(@, [status |-> status, imageUrl |-> imageUrl])],
                      "capture:frame")
       ELSE Commit(St, "capture:noctx")

\* the shutter button, rendered in CAMERA_ACTIVE (so videoRef.current is
\* set); ctx: whether the canvas gave a 2d context
capturePhoto(ctx) ==
    /\ status = CAMERA_ACTIVE
    /\ IF ~VideoMounted(St) \/ streamRef = 0
       THEN Commit(St, "capture:nostream")
       ELSE IF ctx
       THEN /\ Pending(St) < MaxPending
            /\ Cardinality(liveUrls) + Len(blobs) < MaxUrls
            /\ Commit(stopCamera([St EXCEPT !.blobs =
                          Append(@, [status |-> status, imageUrl |-> imageUrl])]),
                      "capture:frame")
       ELSE Commit(stopCamera(St), "capture:noctx")

\* the File capturePhoto makes of the blob
CapturedFile(size) == [type |-> "image/png", size |-> size]

\* the callback of canvas.toBlob: size is the PNG's byte length, or -1 for
\* a null blob; handleFile is the one of the render capturePhoto ran in
toBlobCallback(i, size) ==
    /\ i \in DOMAIN blobs
    /\ LET c == blobs[i]
           s0 == [St EXCEPT !.blobs = RemoveAt(@, i)]
           file == CapturedFile(size)
       IN  IF size < 0
           THEN Commit(s0, "blob:null")
           ELSE Commit(handleFile(s0, file, c.status, c.imageUrl),
                       IF Valid(file) THEN "blob:ok" ELSE "blob:rejected")

\* the cancel button, rendered in CAMERA_ACTIVE: onClick={stopCamera}
cancelCamera ==
    /\ status = CAMERA_ACTIVE
    /\ Commit(stopCamera(St), "camera:cancel")

---------------------------------------------------------------------------
(* Extraction *)

ErrBase64 == "base64 encoding failed"
ErrRead == "file read failed"
ErrNoText == "no text returned"
ErrTransport == "service request failed"
ErrExtractUnknown == "unknown error during extraction"

\* the message extractTextFromImage wraps a caught Error in
Wrapped(message) == "extraction failed: " \o message

\* fileToGenerativePart: the reader may fail; the data URL of an empty file
\* has no base64 part
fileToGenerativePart(file, readOk) ==
    IF ~readOk
    THEN [ok |-> FALSE, isError |-> TRUE, message |-> ErrRead]
    ELSE IF file.size = 0
    THEN [ok |-> FALSE, isError |-> TRUE, message |-> ErrBase64]
    ELSE [ok |-> TRUE, isError |-> FALSE, message |-> ""]

\* (mutant) extractTextFromImage without its test of an empty text
extractTextFromImageNoEmptyTest(file, resp) ==
    LET part == fileToGenerativePart(file, resp.kind # "readFail")
    IN  IF ~part.ok
        THEN [ok |-> FALSE, text |-> "", isError |-> TRUE,
              message |-> Wrapped(part.message)]
        ELSE IF resp.kind = "fail"
        THEN [ok |-> FALSE, text |-> "", isError |-> TRUE,
              message |-> Wrapped(ErrTransport)]
        ELSE IF resp.kind = "failOther"
        THEN [ok |-> FALSE, text |-> "", isError |-> TRUE,
              message |-> ErrExtractUnknown]
        ELSE [ok |-> TRUE, text |-> resp.text, isError |-> FALSE, message |-> ""]

\* extractTextFromImage for a file, given the service's answer: the text it
\* returns, or the value it throws
extractTextFromImage(file, resp) ==
    LET part == fileToGenerativePart(file, resp.kind # "readFail")
        thrown == IF ~part.ok THEN [isError |-> TRUE, message |-> part.message]
                  ELSE IF resp.kind = "fail"
                  THEN [isError |-> TRUE, message |-> ErrTransport]
                  ELSE IF resp.kind = "failOther"
                  THEN [isError |-> FALSE, message |-> ""]
                  ELSE IF resp.kind = "absent" \/ resp.text = ""
                  THEN [isError |-> TRUE, message |-> ErrNoText]
                  ELSE [isError |-> FALSE, message |-> "none"]
    IN  IF thrown.message = "none"
        THEN [ok |-> TRUE, text |-> resp.text, isError |-> FALSE, message |-> ""]
        ELSE [ok |-> FALSE, text |-> "", isError |-> TRUE,
              message |-> IF thrown.isError THEN Wrapped(thrown.message)
                          ELSE ErrExtractUnknown]

\* (mutant) handleExtractText moving to ERROR when no image is set
handleExtractTextErrorState(s) ==
    IF s.imageFile = <<>>
    THEN [s EXCEPT !.error = ErrNoImage, !.status = ERROR]
    ELSE [s EXCEPT !.status = LOADING,
                   !.error = NoError,
                   !.extractedText = "",
                   !.inflight = @ (+) SetToBag({s.imageFile[1]})]

\* handleExtractText up to its await
handleExtractText(s) ==
    IF s.imageFile = <<>>
    THEN [s EXCEPT !.error = ErrNoImage]
    ELSE [s EXCEPT !.status = LOADING,
                   !.error = NoError,
                   !.extractedText = "",
                   !.inflight = @ (+) SetToBag({s.imageFile[1]})]

\* (mutant) the answer applied only while the workflow still waits for it
handleExtractResultOnlyIfLoading(s, r) ==
    IF s.status # LOADING
    THEN s
    ELSE IF r.ok
    THEN [s EXCEPT !.extractedText = r.text, !.status = SUCCESS]
    ELSE [s EXCEPT !.error = IF r.isError THEN r.message ELSE ErrUnknown,
                   !.status = ERROR]

\* (mutant) the result dropped: setStatus(SUCCESS) without setExtractedText
handleExtractResultNoText(s, r) ==
    IF r.ok
    THEN [s EXCEPT !.status = SUCCESS]
    ELSE [s EXCEPT !.error = IF r.isError THEN r.message ELSE ErrUnknown,
                   !.status = ERROR]

\* (mutant) the catch block without its setStatus(ERROR)
handleExtractResultNoErrorState(s, r) ==
    IF r.ok
    THEN [s EXCEPT !.extractedText = r.text, !.status = SUCCESS]
    ELSE [s EXCEPT !.error = IF r.isError THEN r.message ELSE ErrUnknown]

\* handleExtractText after its await: the result, or the catch block
handleExtractResult(s, r) ==
    IF r.ok
    THEN [s EXCEPT !.extractedText = r.text, !.status = SUCCESS]
    ELSE [s EXCEPT !.error = IF r.isError THEN r.message ELSE ErrUnknown,
                   !.status = ERROR]

\* (mutant) the disabled attribute without its LOADING test
ExtractDisabledImageOnly(s) == s.imageFile = <<>>

\* the disabled attribute of the extract button
ExtractDisabled(s) == s.imageFile = <<>> \/ s.status = LOADING

\* a click on the extract button: a disabled button dispatches no click
extractButton ==
    IF ExtractDisabled(St)
    THEN Commit(St, "extract:disabled")
    ELSE /\ Pending(St) < MaxPending
         /\ Commit(handleExtractText(St), "extract:issued")

\* an outstanding request, issued for file, settles with the service's
\* answer resp
extractionSettled(file, resp) ==
    /\ BagIn(file, inflight)
    /\ LET r == extractTextFromImage(file, resp)
           s0 == [St EXCEPT !.inflight = @ (-) SetToBag({file})]
       IN  Commit(handleExtractResult(s0, r),
                  IF r.ok THEN "extract:success" ELSE "extract:failed")

---------------------------------------------------------------------------
(* Text area and save *)

\* onChange of the text area
editText(text) == Commit([St EXCEPT !.extractedText = text], "edit")

\* the message of handleSave's alert
AlertNoText == "no text to save"

\* (mutant) handleSave without the return that follows its alert
handleSaveNoReturn(s) ==
    LET u == FreshUrl(s)
        s1 == [s EXCEPT !.liveUrls = @ \cup {u}]
    IN  [state |-> [s1 EXCEPT !.liveUrls = @ \ {u}],
         alerts |-> IF s.extractedText = "" THEN <<AlertNoText>> ELSE <<>>,
         created |-> <<u>>,
         downloads |-> <<[href |-> u, text |-> s.extractedText]>>,
         revoked |-> <<u>>]

\* handleSave: an alert for an empty buffer; otherwise a download through
\* an object URL that is revoked before the handler returns. The result is
\* the state left and what the call did: its alerts, the object URLs it
\* created, the downloads it started (a.click()) and the URLs it revoked.
handleSave(s) ==
    IF s.extractedText = ""
    THEN [state |-> s,
          alerts |-> <<AlertNoText>>,
          created |-> <<>>,
          downloads |-> <<>>,
          revoked |-> <<>>]
    ELSE LET u == FreshUrl(s)
             s1 == [s EXCEPT !.liveUrls = @ \cup {u}]
         IN  [state |-> [s1 EXCEPT !.liveUrls = @ \ {u}],
              alerts |-> <<>>,
              created |-> <<u>>,
              downloads |-> <<[href |-> u, text |-> s.extractedText]>>,
              revoked |-> <<u>>]

SaveOp(s) == IF s.extractedText = "" THEN "save:notext" ELSE "save:download"

\* the disabled attribute of the save button
SaveDisabled(s) == s.extractedText = ""

saveButton ==
    IF SaveDisabled(St)
    THEN Commit(St, "save:disabled")
    ELSE Commit(handleSave(St).state, SaveOp(St))

---------------------------------------------------------------------------
(* The application driven through its rendered controls *)

Init ==
    /\ status = IDLE
    /\ imageFile = <<>>
    /\ imageUrl = 0
    /\ extractedText = ""
    /\ error = NoError
    /\ streamRef = 0
    /\ srcObject = 0
    /\ liveStreams = {}
    /\ liveUrls = {}
    /\ pendingCam = EmptyBag
    /\ inflight = EmptyBag
    /\ blobs = <<>>
    /\ lastOp = "init"

Next ==
    \/ \E file \in Files : handleFileSelect(file)
    \/ \E file \in Files : handleDrop(file)
    \/ startCamera
    \/ \E req \in BagToSet(pendingCam) : getUserMediaGranted(req)
    \/ \E req \in BagToSet(pendingCam) : getUserMediaDenied(req)
    \/ \E ctx \in BOOLEAN : capturePhoto(ctx)
    \/ \E i \in DOMAIN blobs, size \in BlobSizes \cup {-1} : toBlobCallback(i, size)
    \/ cancelCamera
    \/ extractButton
    \/ \E file \in BagToSet(inflight), resp \in Responses : extractionSettled(file, resp)
    \/ \E text \in Texts : editText(text)
    \/ saveButton

Spec == Init /\ [][Next]_vars

(* The workflow with the service answering every request in the end and   *)
(* the continuation of the await then being run. The text area and the     *)
(* save button are left out: they read and write the text buffer only,     *)
(* which no guard and no other handler reads.                              *)

\* some outstanding request settles (the first conjunct, which
\* extractionSettled implies, spares evaluating it on other steps)
Settle ==
    /\ lastOp' \in {"extract:success", "extract:failed"}
    /\ \E file \in BagToSet(inflight), resp \in Responses :
          extractionSettled(file, resp)

NextFair ==
    \/ \E file \in Files : handleFileSelect(file)
    \/ \E file \in Files : handleDrop(file)
    \/ startCamera
    \/ \E req \in BagToSet(pendingCam) : getUserMediaGranted(req)
    \/ \E req \in BagToSet(pendingCam) : getUserMediaDenied(req)
    \/ \E ctx \in BOOLEAN : capturePhoto(ctx)
    \/ \E i \in DOMAIN blobs, size \in BlobSizes \cup {-1} : toBlobCallback(i, size)
    \/ cancelCamera
    \/ extractButton
    \/ \E file \in BagToSet(inflight), resp \in Responses : extractionSettled(file, resp)

SpecFair == Init /\ [][NextFair]_vars /\ WF_vars(Settle)

(* The handlers called directly, as a caller that does not go through the  *)
(* rendered buttons (and so not through their disabled attribute) does     *)

callHandleExtractText ==
    /\ imageFile # <<>> => Pending(St) < MaxPending
    /\ Commit(handleExtractText(St),
              IF imageFile = <<>> THEN "extract:noimage" ELSE "extract:issued")

callHandleSave == Commit(handleSave(St).state, SaveOp(St))

NextDirect ==
    \/ Next
    \/ callHandleExtractText
    \/ callHandleSave

SpecDirect == Init /\ [][NextDirect]_vars

(* The component with every pending startCamera call remembered by the     *)
(* image it found                                                          *)

NextTraced ==
    \/ \E file \in Files : handleFileSelect(file)
    \/ \E file \in Files : handleDrop(file)
    \/ startCameraTraced
    \/ \E req \in BagToSet(pendingCam) : getUserMediaGranted(req)
    \/ \E req \in BagToSet(pendingCam) : getUserMediaDenied(req)
    \/ \E ctx \in BOOLEAN : capturePhoto(ctx)
    \/ \E i \in DOMAIN blobs, size \in BlobSizes \cup {-1} : toBlobCallback(i, size)
    \/ cancelCamera
    \/ extractButton
    \/ \E file \in BagToSet(inflight), resp \in Responses : extractionSettled(file, resp)
    \/ \E text \in Texts : editText(text)
    \/ saveButton

SpecTraced == Init /\ [][NextTraced]_vars

---------------------------------------------------------------------------
(* Claims *)

\* C1: at most one extraction request is outstanding at any time.
C1_AtMostOneOutstanding == BagCardinality(inflight) <= 1

\* C2: a click on the extract button while the status is LOADING issues no
\* request and changes no state; a click outside LOADING with an image set
\* issues exactly one request and enters LOADING, so that a double click
\* issues one request.
C2_LoadingTriggerIsNoOp ==
    [][extractButton =>
         IF status = LOADING
         THEN UNCHANGED progVars
         ELSE imageFile # <<>> =>
                /\ BagCardinality(inflight') = BagCardinality(inflight) + 1
                /\ status' = LOADING]_vars

\* C2 witness: a click was swallowed while the one request was outstanding
C2_Witness ==
    /\ lastOp = "extract:disabled"
    /\ status = LOADING
    /\ BagCardinality(inflight) = 1

\* C3: at most one camera stream is open (acquired and not stopped).
C3_AtMostOneStream == Cardinality(liveStreams) <= 1

\* C4: outside CAMERA_ACTIVE no camera stream is open.
C4_NoStreamOutsideCamera == status # CAMERA_ACTIVE => liveStreams = {}

(* What the claims call a candidate that passes validation: one of the    *)
(* four media types and at most 10,485,760 bytes.                          *)
Accepted(file) ==
    /\ file.type \in {"image/jpeg", "image/png", "image/bmp", "image/webp"}
    /\ file.size <= 10485760

\* a step that ingests file, from the file picker or the drop zone (the
\* first conjunct, which ingest implies, spares evaluating it on the steps
\* of other handlers)
IngestStep(file) ==
    /\ lastOp' \in {"ingest:format", "ingest:size", "ingest:ok"}
    /\ ingest(file)

\* a step that ingests the captured frame of the given byte length
CaptureIngestStep(size) ==
    /\ lastOp' \in {"blob:rejected", "blob:ok"}
    /\ \E i \in DOMAIN blobs : toBlobCallback(i, size)

\* C5: ingest of a candidate of an unsupported type or of more than
\* 10,485,760 bytes sets an error message and leaves the image handle and
\* its preview reference as they were (file picker, drop, captured frame).
C5_FailedIngestKeepsImage ==
    [][/\ \A file \in Files :
            ~Accepted(file) /\ IngestStep(file) =>
                /\ error' = (IF file.type \in SUPPORTED_FORMATS
                              THEN ErrSize ELSE ErrFormat)
                /\ imageFile' = imageFile
                /\ imageUrl' = imageUrl
                /\ liveUrls' = liveUrls
       /\ \A size \in BlobSizes :
            ~Accepted(CapturedFile(size)) /\ CaptureIngestStep(size) =>
                /\ error' = ErrSize
                /\ imageFile' = imageFile
                /\ imageUrl' = imageUrl
                /\ liveUrls' = liveUrls]_vars

\* C5 witness: an oversized candidate was rejected while an image is held
C5_Witness ==
    /\ lastOp = "ingest:size"
    /\ error = ErrSize
    /\ imageFile # <<>>
    /\ imageUrl \in liveUrls

\* C6: a failed ingest leaves the workflow state as it was, for every prior
\* state.
C6_FailedIngestKeepsStatus ==
    [][\A file \in Files :
          ~Accepted(file) /\ IngestStep(file) => status' = status]_vars

\* the handler branches that report each category of failure
IngestFailures == {"ingest:format", "ingest:size", "blob:rejected"}
ErrorStateFailures == {"camera:denied", "extract:failed"}
Notices == {"extract:noimage", "save:notext"}

\* C7: UnsupportedFormat, FileTooLarge, CameraAccessDenied and the two
\* extraction failures move the workflow state to ERROR and replace the
\* error message; NoImageSelected and NoTextToSave leave the state unchanged.
C7_FailuresMoveToError ==
    [][/\ lastOp' \in IngestFailures \cup ErrorStateFailures =>
            status' = ERROR /\ error' # NoError
       /\ lastOp' \in Notices => status' = status]_vars

\* C7 as amended: CameraAccessDenied and the extraction failures move the
\* state to ERROR and replace the message; UnsupportedFormat and
\* FileTooLarge replace the message without moving the state to ERROR (it
\* stays as it was, or becomes IDLE when the ingest stops the camera);
\* NoImageSelected and NoTextToSave leave the state unchanged.
C7_FailuresAmended ==
    [][/\ lastOp' = "camera:denied" => status' = ERROR /\ error' = ErrCamera
       /\ lastOp' = "extract:failed" =>
            /\ status' = ERROR
            /\ error' \in {Wrapped(ErrNoText), Wrapped(ErrTransport),
                           Wrapped(ErrBase64), Wrapped(ErrRead),
                           ErrExtractUnknown}
       /\ lastOp' \in IngestFailures =>
            /\ error' \in {ErrFormat, ErrSize}
            /\ status' \in {status, IDLE}
       /\ lastOp' \in Notices => status' = status]_vars

\* C7 witness: a rejected ingest left the state LOADING, not ERROR
C7_Witness ==
    /\ lastOp = "ingest:format"
    /\ error = ErrFormat
    /\ status = LOADING

\* C8: ingest of a candidate of a supported type and of at most 10,485,760
\* bytes succeeds from any workflow state: the image handle is that file,
\* the error message is cleared and the state is IDLE.
C8_ValidIngestSucceeds ==
    [][/\ \A file \in Files :
            Accepted(file) /\ IngestStep(file) =>
                /\ imageFile' = <<file>>
                /\ error' = NoError
                /\ status' = IDLE
       /\ \A size \in BlobSizes :
            Accepted(CapturedFile(size)) /\ CaptureIngestStep(size) =>
                /\ imageFile' = <<CapturedFile(size)>>
                /\ error' = NoError
                /\ status' = IDLE]_vars

\* C8 witness: a candidate of exactly the maximum size was ingested while
\* an extraction request was outstanding, and the state is IDLE
C8_Witness ==
    /\ lastOp = "ingest:ok"
    /\ imageFile # <<>>
    /\ imageFile[1].size = 10485760
    /\ status = IDLE
    /\ error = NoError
    /\ inflight # EmptyBag

\* C9: an image handle that is held has one of the four supported media
\* types and at most 10 MiB, whichever way it came in.
C9_HeldImageIsValid ==
    imageFile # <<>> => Accepted(imageFile[1])

\* C9 witness: the held image is a captured frame
C9_Witness ==
    /\ lastOp = "blob:ok"
    /\ imageFile = <<CapturedFile(10485760)>>

\* C10: handleExtractText called with no image set reports NoImageSelected,
\* issues no request and leaves the workflow state and the extracted text
\* unchanged, in every workflow state.
C10_NoImageIsReported ==
    [][callHandleExtractText /\ imageFile = <<>> =>
          /\ error' = ErrNoImage
          /\ inflight' = inflight
          /\ status' = status
          /\ extractedText' = extractedText]_vars

\* C10 witness: the call was made in SUCCESS with a text in the buffer
C10_Witness ==
    /\ lastOp = "extract:noimage"
    /\ error = ErrNoImage
    /\ imageFile = <<>>
    /\ status = SUCCESS
    /\ extractedText # ""

\* a step in which an outstanding request for file settles with resp
SettleStep(file, resp) ==
    /\ lastOp' \in {"extract:success", "extract:failed"}
    /\ extractionSettled(file, resp)

\* C11: a request that resolves with an empty or absent text field moves
\* the workflow state to ERROR with an error message set, and the extracted
\* text is not set from that response; the state does not become SUCCESS.
C11_EmptyResultIsFailure ==
    [][\A file \in Files, resp \in Responses :
          /\ resp.kind \in {"text", "absent"}
          /\ resp.text = ""
          /\ SettleStep(file, resp)
          => /\ status' = ERROR
             /\ error' # NoError
             /\ extractedText' = extractedText]_vars

\* C11 witness: the empty-result failure was reported while the buffer held
\* a text the user had typed
C11_Witness ==
    /\ lastOp = "extract:failed"
    /\ status = ERROR
    /\ error = Wrapped(ErrNoText)
    /\ extractedText # ""

\* C12: a request that resolves with a non-empty text T moves the workflow
\* state to SUCCESS with the text buffer equal to T.
C12_TextIsShownVerbatim ==
    [][\A file \in Files, resp \in Responses :
          /\ resp.kind = "text"
          /\ resp.text # ""
          /\ SettleStep(file, resp)
          => /\ status' = SUCCESS
             /\ extractedText' = resp.text]_vars

\* C12 witness: the service's text is in the buffer and the state is SUCCESS
C12_Witness ==
    /\ lastOp = "extract:success"
    /\ status = SUCCESS
    /\ extractedText = "Hello World"

\* the toBlob callback of a capture has run
CaptureCompleted == lastOp \in {"blob:null", "blob:rejected", "blob:ok"}

\* C13: a capture performed while a camera session is active ends in a
\* state where the workflow state is IDLE, the session is released and an
\* image handle of type image/png holding the frame is set (stated of the
\* state the capture's callback leaves).
C13_CaptureYieldsImage ==
    CaptureCompleted =>
        /\ status = IDLE
        /\ streamRef = 0
        /\ imageFile # <<>>
        /\ imageFile[1].type = "image/png"

\* C13 as amended: a capture performed while a session is active leaves
\* the state IDLE with the session released at once; the callback sets an
\* image/png handle holding the frame, in IDLE with the session released,
\* when the canvas delivers a blob of at most 10,485,760 bytes, and leaves
\* the image handle as it was when it delivers none or a larger one.
C13_CaptureAmended ==
    [][/\ \A ctx \in BOOLEAN :
            streamRef # 0 /\ capturePhoto(ctx) =>
                /\ status' = IDLE
                /\ streamRef' = 0
                /\ streamRef \notin liveStreams'
                /\ Len(blobs') = Len(blobs) + (IF ctx THEN 1 ELSE 0)
       /\ \A size \in BlobSizes :
            Accepted(CapturedFile(size)) /\ CaptureIngestStep(size) =>
                /\ status' = IDLE
                /\ streamRef' = 0
                /\ imageFile' = <<CapturedFile(size)>>
                /\ imageUrl' \in liveUrls'
       /\ lastOp' \in {"blob:null", "blob:rejected"} =>
            /\ imageFile' = imageFile
            /\ imageUrl' = imageUrl]_vars

\* C13 witness: the frame of a capture is the image held, in IDLE, no
\* session being held
C13_Witness ==
    /\ lastOp = "blob:ok"
    /\ status = IDLE
    /\ streamRef = 0
    /\ imageFile # <<>>
    /\ imageFile[1].type = "image/png"
    /\ blobs = <<>>

\* C14: a camera start that the platform denies ends in ERROR with no
\* stream held, and with the image handle and preview that were held before
\* the start was requested (stated of a denial that directly follows the
\* request, nothing else having acted in between).
C14_DeniedStartKeepsImage ==
    [][\A req \in BagToSet(pendingCam) :
          /\ lastOp = "camera:start"
          /\ lastOp' = "camera:denied"
          /\ getUserMediaDenied(req)
          => /\ status' = ERROR
             /\ streamRef' = 0
             /\ imageFile' = req.imageFile
             /\ imageUrl' = req.imageUrl
             /\ req.imageUrl # 0 => req.imageUrl \in liveUrls']_vars

\* C15: from any reachable state, stopCamera called twice in succession
\* yields the state that one call yields, and called when the session is
\* already released it changes nothing, the workflow state included.
C15_StopCameraIsNoOp ==
    /\ stopCamera(stopCamera(St)) = stopCamera(St)
    /\ streamRef = 0 => stopCamera(St) = St

\* C15 as amended: from any reachable state, stopCamera called twice yields
\* the state that one call yields; a call leaves no session held, only the
\* held stream stopped and the state IDLE; called when the session is
\* already released it stops no track and changes no field other than the
\* workflow state, which becomes IDLE.
C15_StopCameraAmended ==
    LET once == stopCamera(St)
    IN  /\ stopCamera(once) = once
        /\ once.streamRef = 0
        /\ once.status = IDLE
        /\ once.liveStreams = liveStreams \ {streamRef}
        /\ once = [St EXCEPT !.streamRef = 0,
                             !.srcObject = 0,
                             !.liveStreams = @ \ {streamRef},
                             !.status = IDLE]
        /\ streamRef = 0 => once = [St EXCEPT !.status = IDLE]

\* C15 witness: the cancel button has called stopCamera while the camera
\* start was still awaiting the platform and no stream had been handed out
C15_Witness ==
    /\ lastOp = "camera:cancel"
    /\ pendingCam # EmptyBag
    /\ liveStreams = {}
    /\ streamRef = 0
    /\ status = IDLE

\* a step in which handleSave runs
SaveStep ==
    /\ lastOp' \in {"save:notext", "save:download"}
    /\ Commit(handleSave(St).state, SaveOp(St))

\* C16: saving an empty text buffer signals that there is no text to save,
\* starts no download and creates no object URL; saving a non-empty buffer
\* starts exactly one download, of the buffer's text, and revokes the one
\* object URL it created; either way the workflow state, the image handle,
\* the text and the error message are left as they were.
C16_SaveEffects ==
    [][SaveStep =>
          LET did == handleSave(St)
          IN  /\ extractedText = "" =>
                    /\ did.alerts = <<AlertNoText>>
                    /\ did.downloads = <<>>
                    /\ did.created = <<>>
              /\ extractedText # "" =>
                    /\ did.alerts = <<>>
                    /\ Len(did.downloads) = 1
                    /\ did.downloads[1].text = extractedText
                    /\ Len(did.created) = 1
                    /\ did.downloads[1].href = did.created[1]
                    /\ did.revoked = did.created
              /\ liveUrls' = liveUrls
              /\ UNCHANGED <<status, imageFile, imageUrl, extractedText, error>>]_vars

\* C16 witness: handleSave has run on an empty buffer while an image and an
\* earlier failure message are held
C16_Witness ==
    /\ lastOp = "save:notext"
    /\ extractedText = ""
    /\ imageFile # <<>>
    /\ error # NoError

\* C17: in every reachable state at most one object URL is unreleased, and
\* it is the one the current image handle's preview refers to.
C17_OnePreviewUrl ==
    /\ Cardinality(liveUrls) <= 1
    /\ liveUrls \subseteq {imageUrl}

\* the handler branches in which an extraction request settles
Settled == {"extract:success", "extract:failed"}

\* C18: an issued extraction request cannot be cancelled and its answer is
\* always applied: a request leaves the outstanding ones only by settling,
\* it can settle in every state, settling sets SUCCESS or ERROR whatever
\* the state was, and (the service answering in the end) LOADING is always
\* followed by SUCCESS or ERROR.
C18_ResponseAlwaysApplied ==
    /\ (status = LOADING) ~> (status \in {SUCCESS, ERROR})
    /\ [](inflight # EmptyBag => ENABLED Settle)
    /\ [][/\ BagCardinality(inflight') < BagCardinality(inflight) =>
                lastOp' \in Settled
          /\ lastOp' \in Settled =>
                /\ status' \in {SUCCESS, ERROR}
                /\ BagCardinality(inflight') = BagCardinality(inflight) - 1]_vars

\* C18 witness: an answer was applied after the camera had been started
\* during LOADING (the image the request was made for is gone)
C18_Witness ==
    /\ lastOp = "extract:success"
    /\ status = SUCCESS
    /\ imageFile = <<>>

\* C19: the result shown in SUCCESS was produced from the image handle
\* that is held: an answer for an image that was replaced or discarded
\* during LOADING never becomes the SUCCESS result (stated of the step that
\* enters SUCCESS; every later change of the image handle leaves SUCCESS).
C19_ResultIsOfHeldImage ==
    [][\A file \in BagToSet(inflight), resp \in Responses :
          SettleStep(file, resp) /\ status' = SUCCESS =>
              imageFile' = <<file>>]_vars

\* C20: in every reachable state the workflow state is ERROR only if an
\* error message is present, and SUCCESS only if none is.
C20_StatusMatchesMessage ==
    /\ status = ERROR => error # NoError
    /\ status = SUCCESS => error = NoError

\* C20 as amended: the workflow state is ERROR only if an error message is
\* present; the step that enters SUCCESS leaves the error message as it
\* was, and a rejected candidate sets one in SUCCESS as in any state, so
\* that SUCCESS does not tell that no message is present.
C20_ErrorHasMessage ==
    [][/\ status' = ERROR => error' # NoError
       /\ lastOp' = "extract:success" =>
            /\ status' = SUCCESS
            /\ error' = error
       /\ lastOp' \in {"ingest:format", "ingest:size"} /\ status = SUCCESS =>
            /\ status' = SUCCESS
            /\ error' # NoError]_vars

\* C20 witness: a denied camera start during LOADING has left ERROR with
\* its message, the request still outstanding
C20_Witness ==
    /\ lastOp = "camera:denied"
    /\ status = ERROR
    /\ error = ErrCamera
    /\ inflight # EmptyBag

============================================================================
